---------------------------- MODULE Spec2Model ----------------------------
(***************************************************************************)
(* Model of r2d2.py: the checksum and framing functions, the command       *)
(* catalog, and the control loop of main() that turns scancodes into BLE   *)
(* writes.                                                                 *)
(***************************************************************************)
EXTENDS Integers, Sequences, FiniteSets, TLC

(* ------------------------------ bounds --------------------------------- *)

\* number of scancodes on stdin in a run of the control loop
MaxEvents == 3
\* number of scancodes on stdin when every value of a character is tried
MaxByteEvents == 1
\* largest value ord() of one character read from stdin is tried with
MaxScancode == 255
\* longest payload built over ByteSample
MaxLen == 3

(* ------------------------- program constants --------------------------- *)

START == 141
END == 216
CmdHandle == 28
AuthHandle == 21
Modulus == 256

Byte == 0..(Modulus - 1)

(* --------------------------- GenCrc, BuildPacket ----------------------- *)

\* Python's ~x on an int
Invert(x) == (-x) - 1

\* mutant: the loop starts at the second byte
RECURSIVE GenCrcLoopSkipFirst(_, _, _)
GenCrcLoopSkipFirst(bytes, i, ret) ==
    IF i + 1 > Len(bytes) THEN ret
    ELSE GenCrcLoopSkipFirst(bytes, i + 1, (ret + bytes[i + 1]) % Modulus)

\* for b in bytes: ret += b; ret = ret % 256
RECURSIVE GenCrcLoop(_, _, _)
GenCrcLoop(bytes, i, ret) ==
    IF i > Len(bytes) THEN ret
    ELSE GenCrcLoop(bytes, i + 1, (ret + bytes[i]) % Modulus)

\* mutant: return ~ret, without the reduction modulo 256
GenCrcNoMask(bytes) == Invert(GenCrcLoop(bytes, 1, 0))

GenCrc(bytes) == Invert(GenCrcLoop(bytes, 1, 0)) % Modulus

\* for b in bytes: ret.append(b)
RECURSIVE AppendEach(_, _, _)
AppendEach(ret, bytes, i) ==
    IF i > Len(bytes) THEN ret
    ELSE AppendEach(Append(ret, bytes[i]), bytes, i + 1)

\* mutant: the checksum is taken over ret, start marker included
BuildPacketCrcOfRet(bytes) ==
    LET ret == AppendEach(<<START>>, bytes, 1)
    IN  Append(Append(ret, GenCrc(ret)), END)

BuildPacket(bytes) ==
    LET ret == AppendEach(<<START>>, bytes, 1)
    IN  Append(Append(ret, GenCrc(bytes)), END)

(* ------------------------------ commandmap ----------------------------- *)

Laugh == <<10, 24, 0, 31, 0, 50, 0, 0, 0, 0, 0>>
RotPlus == <<141, 10, 23, 15, 28, 66, 180, 0, 0, 189, 216>>

\* mutant: a wrong checksum byte in the captured frame
RotZeroBadCrc == <<141, 10, 23, 15, 30, 0, 0, 0, 0, 176, 216>>

RotZero == <<141, 10, 23, 15, 30, 0, 0, 0, 0, 177, 216>>

CommandTable ==
    ("laugh"     :> Laugh) @@
    ("yes"       :> <<10, 23, 5, 65, 0, 15>>) @@
    ("no"        :> <<10, 23, 5, 63, 0, 16>>) @@
    ("alarm"     :> <<10, 23, 5, 23, 0, 7>>) @@
    ("angry"     :> <<10, 23, 5, 24, 0, 8>>) @@
    ("annoyed"   :> <<10, 23, 5, 25, 0, 9>>) @@
    ("ionblast"  :> <<10, 23, 5, 26, 0, 14>>) @@
    ("sad"       :> <<10, 23, 5, 28, 0, 17>>) @@
    ("scared"    :> <<10, 23, 5, 29, 0, 19>>) @@
    ("chatty"    :> <<10, 23, 5, 23, 0, 10>>) @@
    ("confident" :> <<10, 23, 5, 24, 0, 18>>) @@
    ("excited"   :> <<10, 23, 5, 25, 0, 12>>) @@
    ("happy"     :> <<10, 23, 5, 26, 0, 13>>) @@
    ("laugh2"    :> <<10, 23, 5, 27, 0, 15>>) @@
    ("surprise"  :> <<10, 23, 5, 28, 0, 24>>) @@
    ("tripod"    :> <<10, 23, 13, 29, 1>>) @@
    ("bipod"     :> <<10, 23, 13, 28, 2>>) @@
    ("rot+"      :> RotPlus) @@
    ("rot0"      :> RotZero)

(* ------------------------------ r2d2_init ------------------------------ *)

Write(handle, value) == [handle |-> handle, value |-> value]

\* the three char_write_handle calls made before the control loop starts
R2d2InitWrites ==
    << Write(AuthHandle, <<117, 115, 101, 116, 104, 101, 102, 111, 114, 99,
                           101, 46, 46, 46, 98, 97, 110, 100>>),
       Write(CmdHandle, <<141, 10, 19, 13, 0, 213, 216>>),
       Write(CmdHandle, <<141, 10, 26, 14, 28, 0, 128, 255, 50, 216>>) >>

(* --------------------------- main: dispatch ---------------------------- *)

\* the names looked up in commandmap by each branch of the if/elif chain
Up == <<"tripod", "yes">>

\* mutant: the two appends of the Down branch in the other order
DownSwapped == <<"yes", "bipod">>

Down == <<"bipod", "yes">>
RotLeft == <<"rot0", "no">>
RotRight == <<"rot+", "surprise">>
Button34 == <<"laugh", "happy", "excited">>
Button5 == <<"surprise", "sad", "scared">>

\* mutant: a misspelt key
Button6Typo == <<"confident", "laugh3">>

Button6 == <<"confident", "laugh2">>
FrontLeft == <<"angry", "alarm">>
FrontRight == <<"chatty", "ionblast">>

\* mutant: the last test is dropped, so every other scancode is Front right
ElseAsFrontRight == [names |-> <<"chatty", "ionblast">>, invalid |-> FALSE]

\* else: valid_command = False
ElseBranch == [names |-> <<>>, invalid |-> TRUE]

Taken(names) == [names |-> names, invalid |-> FALSE]

Branch(sc) ==
    IF sc = 65 THEN Taken(Up)
    ELSE IF sc = 66 THEN Taken(Down)
    ELSE IF sc = 67 THEN Taken(RotLeft)
    ELSE IF sc = 68 THEN Taken(RotRight)
    ELSE IF sc = 122 THEN Taken(Button34)
    ELSE IF sc = 32 THEN Taken(Button5)
    ELSE IF sc = 120 THEN Taken(Button6)
    ELSE IF sc = 105 THEN Taken(FrontLeft)
    ELSE IF sc = 111 THEN Taken(FrontRight)
    ELSE ElseBranch

\* the appends of a branch that run before a lookup raises KeyError
RECURSIVE Found(_, _)
Found(names, map) ==
    IF names = <<>> \/ Head(names) \notin DOMAIN map THEN <<>>
    ELSE <<Head(names)>> \o Found(Tail(names), map)

(* ------------------------------- state --------------------------------- *)

VARIABLES
    stdin,          \* the scancodes the pad delivers, in order
    nread,          \* how many of them sys.stdin.read(1) has returned
    pc,             \* position of main in the control loop
    scancode,       \* main's scancode
    valid_command,  \* main's valid_command
    sequences,      \* main's sequences: references to lists of commandmap
    seqi,           \* index of the iterator of `for seq in sequences`
    commandmap,     \* contents of the lists the dictionary holds
    wire,           \* the char_write_handle calls made so far, in order
    bytes,          \* argument of a direct call of GenCrc / BuildPacket
    crc,            \* what GenCrc returned for it
    packet,         \* what BuildPacket returned for it
    call            \* which of the two has been called

vars == <<stdin, nread, pc, scancode, valid_command, sequences, seqi,
          commandmap, wire, bytes, crc, packet, call>>

loopVars == <<stdin, nread, pc, scancode, valid_command, sequences, seqi,
              commandmap, wire>>
callVars == <<bytes, crc, packet, call>>

pexit == FALSE

\* a name that is not bound yet
NoValue == -1

(* ------------------------------ inputs --------------------------------- *)

\* the scancodes the pad is mapped to, and some it is not
PadCodes == {65, 66, 67, 68, 122, 32, 120, 105, 111} \cup {0, 64, 69}

SeqsUpTo(S, n) == UNION {[1..k -> S] : k \in 0..n}

ByteSample == {0, 1, 127, 128, 255}

Prefixes(s) == {SubSeq(s, 1, k) : k \in 0..Len(s)}

\* payloads handed to GenCrc and BuildPacket directly
Payloads ==
    SeqsUpTo(ByteSample, MaxLen)
        \cup SeqsUpTo(Byte, 1)
        \cup UNION {Prefixes(CommandTable[n]) : n \in DOMAIN CommandTable}

(* ------------------------------- Init ---------------------------------- *)

\* main after r2d2_init() and tty.setcbreak(), about to enter the loop
LoopStart(input) ==
    /\ stdin = input
    /\ nread = 0
    /\ pc = "read"
    /\ scancode = NoValue
    /\ valid_command = TRUE
    /\ sequences = <<>>
    /\ seqi = 1
    /\ commandmap = CommandTable
    /\ wire = R2d2InitWrites

NoCall ==
    /\ bytes = <<>>
    /\ crc = NoValue
    /\ packet = <<>>
    /\ call = "none"

Init ==
    /\ \E input \in SeqsUpTo(PadCodes, MaxEvents) : LoopStart(input)
    /\ NoCall

InitByte ==
    /\ \E input \in SeqsUpTo(0..MaxScancode, MaxByteEvents) : LoopStart(input)
    /\ NoCall

InitCodec ==
    /\ LoopStart(<<>>)
    /\ bytes \in Payloads
    /\ crc = NoValue
    /\ packet = <<>>
    /\ call = "start"

(* ------------------------- main: control loop -------------------------- *)

\* scancode = ord(sys.stdin.read(1)); valid_command = True
ReadScancode ==
    /\ pc = "read"
    /\ pexit = FALSE
    /\ nread < Len(stdin)
    /\ scancode' = stdin[nread + 1]
    /\ nread' = nread + 1
    /\ valid_command' = TRUE
    /\ pc' = "dispatch"
    /\ UNCHANGED <<stdin, sequences, seqi, commandmap, wire>>
    /\ UNCHANGED callVars

\* the if/elif chain: sequences.append(commandmap[name]) for each name
Dispatch ==
    /\ pc = "dispatch"
    /\ LET b == Branch(scancode)
           found == Found(b.names, commandmap)
       IN  /\ sequences' = sequences \o found
           /\ valid_command' = IF b.invalid THEN FALSE ELSE valid_command
           /\ pc' = IF Len(found) < Len(b.names) THEN "KeyError" ELSE "exec"
    /\ seqi' = 1
    /\ UNCHANGED <<stdin, nread, scancode, commandmap, wire>>
    /\ UNCHANGED callVars

\* one turn of: for seq in sequences: char_write_handle(0x1c, BuildPacket(seq), True)
WriteFrame ==
    /\ pc = "exec"
    /\ valid_command = TRUE
    /\ seqi <= Len(sequences)
    /\ wire' = Append(wire, Write(CmdHandle, BuildPacket(commandmap[sequences[seqi]])))
    /\ seqi' = seqi + 1
    /\ UNCHANGED <<stdin, nread, pc, scancode, valid_command, sequences, commandmap>>
    /\ UNCHANGED callVars

\* mutant: the loop is left after its first turn
EndForEarly ==
    /\ pc = "exec"
    /\ valid_command = TRUE
    /\ seqi > 1
    /\ pc' = "clear"
    /\ UNCHANGED <<stdin, nread, scancode, valid_command, sequences, seqi, commandmap, wire>>
    /\ UNCHANGED callVars

\* the for loop has run through sequences
EndFor ==
    /\ pc = "exec"
    /\ valid_command = TRUE
    /\ seqi > Len(sequences)
    /\ pc' = "clear"
    /\ UNCHANGED <<stdin, nread, scancode, valid_command, sequences, seqi, commandmap, wire>>
    /\ UNCHANGED callVars

\* if valid_command == True: is not taken
SkipExec ==
    /\ pc = "exec"
    /\ valid_command # TRUE
    /\ pc' = "clear"
    /\ UNCHANGED <<stdin, nread, scancode, valid_command, sequences, seqi, commandmap, wire>>
    /\ UNCHANGED callVars

\* mutant: the del statement is missing
ClearNothing ==
    /\ pc = "clear"
    /\ pc' = "read"
    /\ UNCHANGED <<stdin, nread, scancode, valid_command, sequences, seqi, commandmap, wire>>
    /\ UNCHANGED callVars

\* mutant: the referenced lists are emptied, not sequences alone
ClearDeep ==
    /\ pc = "clear"
    /\ commandmap' = [n \in DOMAIN commandmap |->
                        IF \E j \in 1..Len(sequences) : sequences[j] = n
                        THEN <<>> ELSE commandmap[n]]
    /\ sequences' = <<>>
    /\ pc' = "read"
    /\ UNCHANGED <<stdin, nread, scancode, valid_command, seqi, wire>>
    /\ UNCHANGED callVars

\* del sequences[:], then back to the head of the while loop
Clear ==
    /\ pc = "clear"
    /\ sequences' = <<>>
    /\ pc' = "read"
    /\ UNCHANGED <<stdin, nread, scancode, valid_command, seqi, commandmap, wire>>
    /\ UNCHANGED callVars

Next ==
    \/ ReadScancode
    \/ Dispatch
    \/ WriteFrame
    \/ EndFor
    \/ SkipExec
    \/ Clear

Spec == Init /\ [][Next]_vars

SpecByte == InitByte /\ [][Next]_vars

(* ------------------ direct calls of the pure functions ----------------- *)

CallGenCrc ==
    /\ call = "start"
    /\ crc' = GenCrc(bytes)
    /\ call' = "GenCrc"
    /\ UNCHANGED <<bytes, packet>>
    /\ UNCHANGED loopVars

CallBuildPacket ==
    /\ call \in {"start", "GenCrc"}
    /\ packet' = BuildPacket(bytes)
    /\ call' = "BuildPacket"
    /\ UNCHANGED <<bytes, crc>>
    /\ UNCHANGED loopVars

NextCodec ==
    \/ CallGenCrc
    \/ CallBuildPacket

SpecCodec == InitCodec /\ [][NextCodec]_vars

(* ------------------------------- claims -------------------------------- *)

RECURSIVE Sum(_)
Sum(s) == IF s = <<>> THEN 0 ELSE Head(s) + Sum(Tail(s))

\* the checksum as the specification words it
Checksum(P) == 255 - (Sum(P) % 256)

\* the event table of the specification
MappedCodes == {65, 66, 67, 68, 122, 32, 120, 105, 111}

TableRow(code) ==
    CASE code = 65  -> <<"tripod", "yes">>
      [] code = 66  -> <<"bipod", "yes">>
      [] code = 67  -> <<"rot0", "no">>
      [] code = 68  -> <<"rot+", "surprise">>
      [] code = 122 -> <<"laugh", "happy", "excited">>
      [] code = 32  -> <<"surprise", "sad", "scared">>
      [] code = 120 -> <<"confident", "laugh2">>
      [] code = 105 -> <<"angry", "alarm">>
      [] code = 111 -> <<"chatty", "ionblast">>
      [] OTHER      -> <<>>

\* the write an event's command must produce
FrameOf(name) == Write(CmdHandle, BuildPacket(CommandTable[name]))

RowWrites(code) == [j \in 1..Len(TableRow(code)) |-> FrameOf(TableRow(code)[j])]

RECURSIVE ExpectedWrites(_)
ExpectedWrites(codes) ==
    IF codes = <<>> THEN <<>>
    ELSE RowWrites(Head(codes)) \o ExpectedWrites(Tail(codes))

\* everything on the wire once the first n events are complete
WireAfter(n) == R2d2InitWrites \o ExpectedWrites(SubSeq(stdin, 1, n))

IsPrefix(s, t) == Len(s) <= Len(t) /\ SubSeq(t, 1, Len(s)) = s

Range(s) == {s[j] : j \in 1..Len(s)}

\* C1: when a mapped scancode has been processed, the writes made for it are
\* exactly one frame per command of its table row, in the row's order, on
\* handle 0x1c, each BuildPacket of the whole catalog entry; scancode 66 gives
\* the bipod frame and then the yes frame.
C1_OneFramePerCommand ==
    (pc = "clear" /\ scancode \in MappedCodes) =>
        LET row == TableRow(scancode)
            before == Len(WireAfter(nread - 1))
        IN  /\ Len(wire) = before + Len(row)
            /\ \A j \in 1..Len(row) :
                  /\ wire[before + j].handle = 28
                  /\ wire[before + j].value = BuildPacket(CommandTable[row[j]])
            /\ scancode = 66 =>
                  SubSeq(wire, before + 1, Len(wire)) =
                      << Write(28, BuildPacket(CommandTable["bipod"])),
                         Write(28, BuildPacket(CommandTable["yes"])) >>

C1_Witness ==
    /\ pc = "clear"
    /\ scancode = 66
    /\ nread = 2
    /\ stdin[1] = 68
    /\ Len(wire) = Len(R2d2InitWrites) + 4

\* C2: BuildPacket(P) is 0x8D, the bytes of P in order, GenCrc(P), 0xD8: its
\* length is len(P) + 3, its first byte 0x8D, its last byte 0xD8 and its
\* second-to-last byte the checksum of P.
C2_PacketLayout ==
    call = "BuildPacket" =>
        /\ packet = <<141>> \o bytes \o <<GenCrc(bytes)>> \o <<216>>
        /\ Len(packet) = Len(bytes) + 3
        /\ packet[1] = 141
        /\ packet[Len(packet)] = 216
        /\ packet[Len(packet) - 1] = Checksum(bytes)
        /\ \A j \in 1..Len(bytes) : packet[j + 1] = bytes[j]

C2_Witness ==
    /\ call = "BuildPacket"
    /\ Len(bytes) >= 2
    /\ Sum(bytes) >= 256
    /\ Len(packet) = Len(bytes) + 3

\* C3: GenCrc(P) is 255 - (sum of the bytes of P modulo 256), a value in
\* 0..255, and 255 for the empty sequence.
C3_GenCrcValue ==
    call = "GenCrc" =>
        /\ crc = 255 - (Sum(bytes) % 256)
        /\ crc \in 0..255
        /\ bytes = <<>> => crc = 255

C3_Witness ==
    /\ call = "GenCrc"
    /\ Len(bytes) = 2
    /\ Sum(bytes) > 256
    /\ crc = 511 - Sum(bytes)

\* C4 as stated: for the payload 0A 17 05 41 00 the byte sum is 109 and
\* GenCrc returns 146.
C4_VectorAsStated ==
    (call = "GenCrc" /\ bytes = <<10, 23, 5, 65, 0>>) =>
        /\ Sum(bytes) = 109
        /\ crc = 146

\* C4: for the payload 0A 17 05 41 00 the byte sum is 103 and GenCrc
\* returns 152.
C4_VectorChecksum ==
    (call = "GenCrc" /\ bytes = <<10, 23, 5, 65, 0>>) =>
        /\ Sum(bytes) = 103
        /\ crc = 152

C4_Witness ==
    /\ call = "GenCrc"
    /\ bytes = <<10, 23, 5, 65, 0>>
    /\ crc = 152

\* C5: while and after an unmapped scancode is processed, the command
\* sequence is empty, nothing has been written for it, no lookup has failed,
\* and the loop is able to go on.
C5_UnmappedNoWrite ==
    (nread >= 1 /\ scancode \notin MappedCodes) =>
        /\ sequences = <<>>
        /\ wire = WireAfter(nread - 1)
        /\ pc \in {"dispatch", "exec", "clear", "read"}
        /\ pc # "read" => ENABLED Next

C5_Witness ==
    /\ pc = "read"
    /\ nread = 1
    /\ scancode \notin MappedCodes
    /\ wire = R2d2InitWrites

\* C6: the names the dispatch uses are the eighteen listed ones, each a key
\* of commandmap holding a non-empty sequence of bytes, and no lookup of the
\* control loop fails.
C6_NamesResolve ==
    /\ UNION {Range(Branch(sc).names) : sc \in 0..MaxScancode} =
          {"tripod", "bipod", "yes", "no", "rot0", "rot+", "surprise", "laugh",
           "happy", "excited", "sad", "scared", "confident", "laugh2", "angry",
           "alarm", "chatty", "ionblast"}
    /\ pc # "KeyError"
    /\ pc = "exec" => Len(sequences) = Len(Branch(scancode).names)
    /\ \A j \in 1..Len(sequences) :
          /\ sequences[j] \in DOMAIN commandmap
          /\ commandmap[sequences[j]] # <<>>
          /\ \A k \in 1..Len(commandmap[sequences[j]]) :
                commandmap[sequences[j]][k] \in 0..255

C6_Witness ==
    /\ pc = "exec"
    /\ scancode = 120
    /\ sequences = <<"confident", "laugh2">>

Framed(e) ==
    /\ Len(e) >= 3
    /\ e[1] = 141
    /\ e[Len(e)] = 216
    /\ e[Len(e) - 1] = Checksum(SubSeq(e, 2, Len(e) - 2))

\* C7 as stated: laugh, rot+ and rot0 each embed the full wire framing.
C7_AllThreeFramed ==
    \A n \in {"laugh", "rot+", "rot0"} : Framed(commandmap[n])

\* C7: rot+ and rot0 each embed the full wire framing (start marker first,
\* end marker last, checksum of the bytes between second to last); laugh
\* does not start with the start marker.
C7_RotEntriesFramed ==
    /\ \A n \in {"rot+", "rot0"} : Framed(commandmap[n])
    /\ commandmap["laugh"][1] # 141

C7_Witness ==
    /\ pc = "exec"
    /\ scancode = 67
    /\ seqi = 2
    /\ Framed(commandmap[sequences[1]])
    /\ wire[Len(wire)].value = <<141>> \o commandmap["rot0"] \o <<155, 216>>

\* C8: sequences is empty wherever the loop reads the next scancode, and
\* what is executed for an event is that event's commands alone.
C8_SequencesEmptyAtRead ==
    /\ pc = "read" => sequences = <<>>
    /\ pc \in {"exec", "clear"} => sequences = TableRow(scancode)

C8_Witness ==
    /\ pc = "read"
    /\ nread = 2
    /\ stdin[1] \in MappedCodes
    /\ stdin[2] \notin MappedCodes
    /\ sequences = <<>>

\* C9: every commandmap entry holds the bytes of its literal definition in
\* every state.
C9_CatalogUnchanged == commandmap = CommandTable

C9_Witness ==
    /\ pc = "read"
    /\ nread = 2
    /\ stdin[1] = 122
    /\ stdin[2] = 32
    /\ commandmap["surprise"] = <<10, 23, 5, 28, 0, 24>>

\* C10: at every read all frames of all earlier events are on the wire, in
\* event order, and in between the wire holds them followed by a prefix of
\* the current event's frames.
C10_EventsInOrder ==
    /\ pc = "read" => wire = WireAfter(nread)
    /\ pc # "read" =>
          /\ IsPrefix(WireAfter(nread - 1), wire)
          /\ IsPrefix(wire, WireAfter(nread))

C10_Witness ==
    /\ pc = "dispatch"
    /\ nread = 2
    /\ stdin[1] \in MappedCodes
    /\ stdin[2] \in MappedCodes
    /\ stdin[1] # stdin[2]
    /\ wire = WireAfter(1)

=============================================================================
